---- MODULE Spec2Model ----
(***************************************************************************)
(* Model of the socket.io chat relay of src/index.js: the in-memory        *)
(* message buffer (addToBuffer, cleanOldMessages, getRecentMessages) and   *)
(* the four event handlers (connection, join_room, send_message,           *)
(* disconnect).                                                            *)
(*                                                                         *)
(* Time is in milliseconds, as Date.now() returns it, counted from the     *)
(* moment the process starts.  Every Date.now() call of a handler is a     *)
(* separate read of a clock that never goes back: the clock may advance    *)
(* between two reads of the same handler.                                  *)
(*                                                                         *)
(* socket.io is the environment.  io.emit targets every socket of the      *)
(* namespace; the delivery to one socket may fail silently (the transport  *)
(* drops the packet).  The try block of send_message guards addToBuffer    *)
(* and io.emit; that one of them throws is the input `fault`.              *)
(***************************************************************************)
EXTENDS Integers, Sequences, FiniteSets

(* ---- bounds of the model ---------------------------------------------- *)

\* src/index.js:31 sets MAX_BUFFER_SIZE = 50; the model scales the capacity
\* down so that a full buffer and its eviction are reached.
MAX_BUFFER_SIZE == 2
\* sockets the transport hands out
MaxSockets == 2
\* send_message events handled in one run of the buffer's specification
MaxSends == 3
\* send_message events handled in one run of the relay's specification
MaxRelaySends == 2
\* clock advances in one run of the buffer's specification
MaxTicks == 3
\* clock advances in one run of the relay's specification
MaxRelayTicks == 2

(* ---- program constants ------------------------------------------------ *)

MESSAGE_RETENTION_MS == 60 * 60 * 1000

(* ---- inputs ----------------------------------------------------------- *)

SocketIds == 1..MaxSockets

Rooms == {"general"}

\* amounts by which the clock advances between two events: a second, the
\* ten minutes of the sync window, and fifty minutes, which with the ten make
\* the hour of MESSAGE_RETENTION_MS
ClockSteps == {1000, 10 * 60 * 1000, 50 * 60 * 1000}

\* the same for the relay's specification, whose subject is not the clock
RelaySteps == {10 * 60 * 1000}

\* amounts by which the clock advances between the push of addToBuffer and
\* cleanOldMessages (nothing, the sync window, the retention window), and
\* between cleanOldMessages and the ack
CleanDelays == {0, 10 * 60 * 1000, 60 * 60 * 1000}

AckDelays == {0, 1000}

\* the value of a field the record does not have
Undefined == "undefined"

\* the payload null: `{...null}` is `{}`, `null.id` throws a TypeError
NullData == [isNull |-> TRUE, id |-> Undefined, timestamp |-> <<>>]

\* the `data` argument of send_message: a record with a client-chosen id,
\* with or without a timestamp field of its own (here 7), or null
Payloads ==
    { [isNull |-> FALSE, id |-> "a", timestamp |-> <<>>],
      [isNull |-> FALSE, id |-> "b", timestamp |-> <<7>>],
      NullData }

\* the `callback` argument of send_message: the ack function, nothing, or a
\* value that is no function
Callbacks == {"function", "absent", "notfunction"}

Faults == {"none", "addToBuffer", "emit"}

VARIABLES
    now,            \* the value Date.now() returned last
    ticks,          \* clock advances so far (bounds the run)
    messageBuffer,  \* src/index.js:30
    nsent,          \* send_message events so far; numbers the buffered copies
    sockets,        \* the sockets of the namespace (connected)
    clientsCount,   \* io.engine.clientsCount
    rooms,          \* socket -> rooms it joined
    last,           \* the event handled last
    lastSend,       \* the inputs of the send_message handled last
    user_count,     \* user_count events the last handler emitted
    receive_message,\* receive_message events the last handler emitted
    sync_messages,  \* sync_messages events the last handler emitted
    acks,           \* invocations of the ack callback by the last handler
    uncaught,       \* an exception escaped a handler
    seen,           \* socket -> the messages (by ordinal) its connection got
                    \* in its snapshot, got as receive_message, and sent
    running         \* where the handler on the stack stands: "idle" (none),
                    \* or inside addToBuffer: "pushed", "shifted"

vars == <<now, ticks, messageBuffer, nsent, sockets, clientsCount, rooms, last,
          lastSend, user_count, receive_message,
          sync_messages, acks, uncaught, seen, running>>

(* ---- the message buffer ----------------------------------------------- *)

\* { timestamp: Date.now(), ...message }: a timestamp field of the payload
\* wins over the server's
messageWithClientTimestamp(message, t, n) ==
    [id |-> IF message.isNull THEN Undefined ELSE message.id,
     timestamp |-> IF message.timestamp # <<>> THEN message.timestamp[1] ELSE t,
     n |-> n]

\* { ...message, timestamp: Date.now() }: the fields of the payload, the
\* timestamp field set (or overwritten) by the server's clock.  n is the
\* ordinal of the send, which tells the buffered copies apart.
messageWithTimestamp(message, t, n) ==
    [id |-> IF message.isNull THEN Undefined ELSE message.id,
     timestamp |-> t,
     n |-> n]

\* cleanOldMessages with the comparison <= : keeps a message aged exactly
\* MESSAGE_RETENTION_MS
cleanOldMessagesInclusive(buffer, t) ==
    SelectSeq(buffer, LAMBDA msg : (t - msg.timestamp) <= MESSAGE_RETENTION_MS)

cleanOldMessages(buffer, t) ==
    SelectSeq(buffer, LAMBDA msg : (t - msg.timestamp) < MESSAGE_RETENTION_MS)

\* the push without the shift
pushNoShift(buffer, entry) == Append(buffer, entry)

\* pop instead of shift: the entry just pushed is the one removed
pushAndPop(buffer, entry) ==
    LET pushed == Append(buffer, entry)
    IN  IF Len(pushed) > MAX_BUFFER_SIZE
            THEN SubSeq(pushed, 1, Len(pushed) - 1)
            ELSE pushed

\* push, then one shift when the length exceeds MAX_BUFFER_SIZE
pushAndShift(buffer, entry) ==
    LET pushed == Append(buffer, entry)
    IN  IF Len(pushed) > MAX_BUFFER_SIZE THEN Tail(pushed) ELSE pushed

\* unshift instead of push: the new entry goes to the head, where the shift
\* of a full buffer removes it
addToBufferUnshift(buffer, message, t1, t2, n) ==
    LET unshifted == <<messageWithTimestamp(message, t1, n)>> \o buffer
    IN  cleanOldMessages(IF Len(unshifted) > MAX_BUFFER_SIZE
                             THEN Tail(unshifted)
                             ELSE unshifted, t2)

\* t1 is the Date.now() of line 39, t2 the Date.now() of cleanOldMessages
addToBuffer(buffer, message, t1, t2, n) ==
    cleanOldMessages(pushAndShift(buffer, messageWithTimestamp(message, t1, n)), t2)

\* getRecentMessages with the comparison >= : includes a message aged
\* exactly ten minutes
getRecentMessagesInclusive(buffer, t) ==
    LET tenMinutesAgo == t - (10 * 60 * 1000)
    IN  SelectSeq(buffer, LAMBDA msg : msg.timestamp >= tenMinutesAgo)

getRecentMessages(buffer, t) ==
    LET tenMinutesAgo == t - (10 * 60 * 1000)
    IN  SelectSeq(buffer, LAMBDA msg : msg.timestamp > tenMinutesAgo)

(* ---- the handlers ----------------------------------------------------- *)

\* callback && true: any truthy second argument is taken for a function
isFunctionTruthy(callback) == callback # "absent"

\* callback && typeof callback === 'function'
isFunction(callback) == callback = "function"

\* callback({ success: true, messageId: data.id, timestamp: Date.now() })
successAck(s, data, t) ==
    [to |-> s, success |-> TRUE, messageId |-> data.id, timestamp |-> <<t>>,
     error |-> Undefined]

\* callback({ success: false, error: 'Failed to process message' })
failureAck(s) ==
    [to |-> s, success |-> FALSE, messageId |-> Undefined, timestamp |-> <<>>,
     error |-> "Failed to process message"]

\* io.to(room).emit: the event addressed to the sockets that joined a room
ioEmitToRooms(socks, failed, payload) ==
    <<[to |-> {x \in socks : rooms[x] # {}}, failed |-> failed, data |-> payload]>>

\* the event carries the record with the server's timestamp written into it
ioEmitStamped(socks, failed, payload) ==
    <<[to |-> socks, failed |-> failed,
       data |-> [payload EXCEPT !.timestamp = <<now>>]]>>

\* io.emit(event, payload): one event, addressed to every socket of the
\* namespace; `failed` are the sockets the transport did not reach
ioEmit(socks, failed, payload) ==
    <<[to |-> socks, failed |-> failed, data |-> payload]>>

\* the count read before the transport updated it
emitUserCountStale(socks, count) == <<[to |-> socks, count |-> Cardinality(sockets)]>>

\* io.emit('user_count', io.engine.clientsCount)
emitUserCount(socks, count) == <<[to |-> socks, count |-> count]>>

\* the emit without the test of the length
emitSyncAlways(s, recentMessages) == <<[to |-> {s}, messages |-> recentMessages]>>

\* if (recentMessages.length > 0) socket.emit('sync_messages', recentMessages)
emitSync(s, recentMessages) ==
    IF Len(recentMessages) > 0
        THEN <<[to |-> {s}, messages |-> recentMessages]>>
        ELSE <<>>

\* The try block of the send_message handler.  t1 is the clock when the
\* handler starts (and the Date.now() of addToBuffer's push), t2 the
\* Date.now() of cleanOldMessages, t3 the Date.now() of the ack.
\* `thrown` tells whether the block ended in an exception.
tryBlock(buffer, socks, s, data, callback, fault, failed, t1, t2, t3, n) ==
    IF fault = "addToBuffer"
        THEN [thrown |-> TRUE, buffer |-> buffer, receive_message |-> <<>>,
              acks |-> <<>>, now |-> t1]
    ELSE LET inserted == addToBuffer(buffer, data, t1, t2, n)
             emitted == ioEmit(socks, failed, data)
         IN  IF fault = "emit"
                 THEN [thrown |-> TRUE, buffer |-> inserted,
                       receive_message |-> emitted, acks |-> <<>>, now |-> t2]
             ELSE IF ~isFunction(callback)
                 THEN [thrown |-> FALSE, buffer |-> inserted,
                       receive_message |-> emitted, acks |-> <<>>, now |-> t2]
             ELSE IF data.isNull
                 \* data.id of null: TypeError, before callback is called
                 THEN [thrown |-> TRUE, buffer |-> inserted,
                       receive_message |-> emitted, acks |-> <<>>, now |-> t2]
             ELSE [thrown |-> FALSE, buffer |-> inserted,
                   receive_message |-> emitted,
                   acks |-> <<successAck(s, data, t3)>>, now |-> t3]

\* no catch block: the exception leaves the handler
rethrow(r, s, callback) == [uncaught |-> TRUE, acks |-> r.acks]

\* The catch block: the ack callback is invoked with the failure result,
\* the exception goes no further.
catchBlock(r, s, callback) ==
    [uncaught |-> FALSE,
     acks |-> r.acks \o (IF isFunction(callback) THEN <<failureAck(s)>> ELSE <<>>)]

\* try { ... } catch (error) { ... }
tryCatch(r, s, callback) ==
    IF r.thrown THEN catchBlock(r, s, callback)
                ELSE [uncaught |-> FALSE, acks |-> r.acks]

\* what a connection has seen when it starts
NothingSeen == [synced |-> {}, received |-> {}, sent |-> {}]

\* socket.emit('sync_messages', recentMessages) reaches socket s
seenSync(h, s, sync) ==
    [h EXCEPT ![s].synced =
        @ \cup UNION {{sync[i].messages[j].n : j \in 1..Len(sync[i].messages)} :
                        i \in 1..Len(sync)}]

\* message n, sent by `sender`, reaches the sockets of the emitted events
\* that the transport did not fail
seenSend(h, sender, n, emitted) ==
    [x \in DOMAIN h |->
        [synced |-> h[x].synced,
         received |-> h[x].received \cup
            (IF \E i \in 1..Len(emitted) : x \in emitted[i].to \ emitted[i].failed
                THEN {n} ELSE {}),
         sent |-> h[x].sent \cup (IF x = sender THEN {n} ELSE {})]]

NoSend ==
    [data |-> NullData, callback |-> "absent", fault |-> "none", failed |-> {},
     issuedAt |-> 0, returnedAt |-> 0, thrown |-> FALSE]

Cost(d) == IF d = 0 THEN 0 ELSE 1

(* ---- the state machine ------------------------------------------------ *)

Init ==
    /\ now = 0
    /\ ticks = 0
    /\ messageBuffer = <<>>
    /\ nsent = 0
    /\ sockets = {}
    /\ clientsCount = 0
    /\ rooms = [s \in SocketIds |-> {}]
    /\ last = [event |-> "start", socket |-> 0]
    /\ lastSend = NoSend
    /\ user_count = <<>>
    /\ receive_message = <<>>
    /\ sync_messages = <<>>
    /\ acks = <<>>
    /\ uncaught = FALSE
    /\ seen = [s \in SocketIds |-> NothingSeen]
    /\ running = "idle"

\* time passes between two events
Tick(d, maxTicks) ==
    /\ ~uncaught
    /\ ticks < maxTicks
    /\ now' = now + d
    /\ ticks' = ticks + 1
    /\ last' = [event |-> "tick", socket |-> 0]
    /\ lastSend' = NoSend
    /\ user_count' = <<>>
    /\ receive_message' = <<>>
    /\ sync_messages' = <<>>
    /\ acks' = <<>>
    /\ UNCHANGED <<messageBuffer, nsent, sockets, clientsCount, rooms, uncaught,
                   seen, running>>

\* the connection handler with a getRecentMessages that filters the buffer
\* in place, as cleanOldMessages does
ConnectionPruning(s, track) ==
    /\ ~uncaught
    /\ s \notin sockets
    /\ sockets' = sockets \cup {s}
    /\ clientsCount' = clientsCount + 1
    /\ user_count' = emitUserCount(sockets', clientsCount')
    /\ messageBuffer' = getRecentMessages(messageBuffer, now)
    /\ sync_messages' = emitSync(s, messageBuffer')
    /\ seen' = IF track
                   THEN seenSync([seen EXCEPT ![s] = NothingSeen], s, sync_messages')
                   ELSE seen
    /\ last' = [event |-> "connection", socket |-> s]
    /\ lastSend' = NoSend
    /\ receive_message' = <<>>
    /\ acks' = <<>>
    /\ UNCHANGED <<now, ticks, nsent, rooms, uncaught, running>>

\* io.on('connection', (socket) => ...): the transport has registered the
\* socket and counted its client before the handler runs.  `track` tells
\* whether the run keeps the record `seen` of what each connection got.
Connection(s, track) ==
    /\ ~uncaught
    /\ s \notin sockets
    /\ sockets' = sockets \cup {s}
    /\ clientsCount' = clientsCount + 1
    /\ user_count' = emitUserCount(sockets', clientsCount')
    /\ sync_messages' = emitSync(s, getRecentMessages(messageBuffer, now))
    /\ seen' = IF track
                   THEN seenSync([seen EXCEPT ![s] = NothingSeen], s, sync_messages')
                   ELSE seen
    /\ last' = [event |-> "connection", socket |-> s]
    /\ lastSend' = NoSend
    /\ receive_message' = <<>>
    /\ acks' = <<>>
    /\ UNCHANGED <<now, ticks, messageBuffer, nsent, rooms, uncaught, running>>

\* a join_room handler that announces the user count to every socket
JoinRoomAnnounce(s, room) ==
    /\ ~uncaught
    /\ s \in sockets
    /\ rooms' = [rooms EXCEPT ![s] = @ \cup {room}]
    /\ last' = [event |-> "join_room", socket |-> s]
    /\ lastSend' = NoSend
    /\ user_count' = emitUserCount(sockets, clientsCount)
    /\ receive_message' = <<>>
    /\ sync_messages' = <<>>
    /\ acks' = <<>>
    /\ UNCHANGED <<now, ticks, messageBuffer, nsent, sockets, clientsCount, uncaught,
                   seen, running>>

\* a join_room handler that replays the recent messages to the socket
JoinRoomResync(s, room) ==
    /\ ~uncaught
    /\ s \in sockets
    /\ rooms' = [rooms EXCEPT ![s] = @ \cup {room}]
    /\ last' = [event |-> "join_room", socket |-> s]
    /\ lastSend' = NoSend
    /\ user_count' = <<>>
    /\ receive_message' = <<>>
    /\ sync_messages' = emitSync(s, getRecentMessages(messageBuffer, now))
    /\ seen' = seenSync(seen, s, sync_messages')
    /\ acks' = <<>>
    /\ UNCHANGED <<now, ticks, messageBuffer, nsent, sockets, clientsCount, uncaught,
                   running>>

\* socket.on('join_room', (room) => socket.join(room))
JoinRoom(s, room) ==
    /\ ~uncaught
    /\ s \in sockets
    /\ rooms' = [rooms EXCEPT ![s] = @ \cup {room}]
    /\ last' = [event |-> "join_room", socket |-> s]
    /\ lastSend' = NoSend
    /\ user_count' = <<>>
    /\ receive_message' = <<>>
    /\ sync_messages' = <<>>
    /\ acks' = <<>>
    /\ UNCHANGED <<now, ticks, messageBuffer, nsent, sockets, clientsCount, uncaught,
                   seen, running>>

\* socket.on('send_message', (data, callback) => ...).  The clock advances
\* by d1 between the push of addToBuffer and cleanOldMessages, by d2 between
\* cleanOldMessages and the ack.
SendMessage(s, data, callback, fault, failed, d1, d2, maxTicks, maxSends, track) ==
    /\ ~uncaught
    /\ s \in sockets
    /\ nsent < maxSends
    /\ ticks + Cost(d1) + Cost(d2) <= maxTicks
    /\ failed \subseteq sockets
    /\ fault = "emit" => failed # {}
    /\ fault = "addToBuffer" => failed = {}
    /\ LET r == tryBlock(messageBuffer, sockets, s, data, callback, fault, failed,
                         now, now + d1, now + d1 + d2, nsent + 1)
           h == tryCatch(r, s, callback)
       IN  /\ r.now = now + d1 + d2    \* the clock is read as often as it advances
           /\ messageBuffer' = r.buffer
           /\ receive_message' = r.receive_message
           /\ seen' = IF track
                          THEN seenSend(seen, s, nsent + 1, r.receive_message)
                          ELSE seen
           /\ acks' = h.acks
           /\ uncaught' = h.uncaught
           /\ now' = r.now
           /\ lastSend' = [data |-> data, callback |-> callback, fault |-> fault,
                           failed |-> failed, issuedAt |-> now,
                           returnedAt |-> now + d1, thrown |-> r.thrown]
    /\ ticks' = ticks + Cost(d1) + Cost(d2)
    /\ nsent' = nsent + 1
    /\ last' = [event |-> "send_message", socket |-> s]
    /\ user_count' = <<>>
    /\ sync_messages' = <<>>
    /\ UNCHANGED <<sockets, clientsCount, rooms, running>>

\* socket.on('disconnect', ...): the transport has removed the socket, its
\* rooms and its client before the handler runs
Disconnect(s, track) ==
    /\ ~uncaught
    /\ s \in sockets
    /\ sockets' = sockets \ {s}
    /\ clientsCount' = clientsCount - 1
    /\ rooms' = [rooms EXCEPT ![s] = {}]
    /\ seen' = IF track THEN [seen EXCEPT ![s] = NothingSeen] ELSE seen
    /\ user_count' = emitUserCount(sockets', clientsCount')
    /\ last' = [event |-> "disconnect", socket |-> s]
    /\ lastSend' = NoSend
    /\ receive_message' = <<>>
    /\ sync_messages' = <<>>
    /\ acks' = <<>>
    /\ UNCHANGED <<now, ticks, messageBuffer, nsent, uncaught, running>>

\* The relay: every handler, every socket, every payload, callback and
\* fault; the clock advances between events by the sync window, and inside
\* send_message before the ack.
RelayNext(track) ==
    \/ \E d \in RelaySteps : Tick(d, MaxRelayTicks)
    \/ \E s \in SocketIds : Connection(s, track)
    \/ \E s \in SocketIds, room \in Rooms : JoinRoom(s, room)
    \/ \E s \in SocketIds, data \in Payloads, callback \in Callbacks,
          fault \in Faults, failed \in {{}} \cup {{x} : x \in SocketIds},
          d2 \in AckDelays :
            SendMessage(s, data, callback, fault, failed, 0, d2, MaxRelayTicks,
                        MaxRelaySends, track)
    \/ \E s \in SocketIds : Disconnect(s, track)

Next == RelayNext(FALSE)

Spec == Init /\ [][Next]_vars

\* The relay, with the record of what each connection has got.
ReplayNext == RelayNext(TRUE)

SpecReplay == Init /\ [][ReplayNext]_vars

\* The buffer: one socket that connects, sends without asking for an ack
\* and disconnects, under every advance of the clock, between events and
\* inside addToBuffer.
BufferNext ==
    \/ \E d \in ClockSteps : Tick(d, MaxTicks)
    \/ Connection(1, FALSE)
    \/ \E data \in Payloads, d1 \in CleanDelays :
            SendMessage(1, data, "absent", "none", {}, d1, 0, MaxTicks, MaxSends,
                        FALSE)
    \/ Disconnect(1, FALSE)

SpecBuffer == Init /\ [][BufferNext]_vars

(* ---- addToBuffer, statement by statement ----------------------------- *)

\* any time: a handler starts while another stands inside addToBuffer
handlerMayStartAnyTime == TRUE

\* Node runs a handler to its end before it starts the next: addToBuffer
\* has no await between its push and the end of cleanOldMessages
handlerMayStart == running = "idle"

\* send_message up to messageBuffer.push(messageWithTimestamp)
PushStep(s, data) ==
    /\ ~uncaught
    /\ running = "idle"
    /\ s \in sockets
    /\ nsent < MaxSends
    /\ messageBuffer' = Append(messageBuffer, messageWithTimestamp(data, now, nsent + 1))
    /\ running' = "pushed"
    /\ nsent' = nsent + 1
    /\ last' = [event |-> "send_message", socket |-> s]
    /\ lastSend' = [data |-> data, callback |-> "absent", fault |-> "none",
                    failed |-> {}, issuedAt |-> now, returnedAt |-> now,
                    thrown |-> FALSE]
    /\ user_count' = <<>>
    /\ receive_message' = <<>>
    /\ sync_messages' = <<>>
    /\ acks' = <<>>
    /\ UNCHANGED <<now, ticks, sockets, clientsCount, rooms, uncaught, seen>>

\* if (messageBuffer.length > MAX_BUFFER_SIZE) messageBuffer.shift()
ShiftStep ==
    /\ running = "pushed"
    /\ messageBuffer' = IF Len(messageBuffer) > MAX_BUFFER_SIZE
                            THEN Tail(messageBuffer) ELSE messageBuffer
    /\ running' = "shifted"
    /\ UNCHANGED <<now, ticks, nsent, sockets, clientsCount, rooms, last, lastSend,
                   user_count, receive_message, sync_messages, acks, uncaught, seen>>

\* cleanOldMessages(), then io.emit('receive_message', data); no callback
CleanStep ==
    /\ running = "shifted"
    /\ messageBuffer' = cleanOldMessages(messageBuffer, now)
    /\ receive_message' = ioEmit(sockets, {}, lastSend.data)
    /\ running' = "idle"
    /\ UNCHANGED <<now, ticks, nsent, sockets, clientsCount, rooms, last, lastSend,
                   user_count, sync_messages, acks, uncaught, seen>>

\* The interleavings of connections and sends: addToBuffer goes statement
\* by statement, and a handler starts when the event loop lets it.
StepNext ==
    \/ \E d \in RelaySteps : handlerMayStart /\ Tick(d, MaxRelayTicks)
    \/ \E s \in SocketIds : handlerMayStart /\ Connection(s, FALSE)
    \/ \E s \in SocketIds, data \in Payloads : PushStep(s, data)
    \/ ShiftStep
    \/ CleanStep
    \/ \E s \in SocketIds : handlerMayStart /\ Disconnect(s, FALSE)

SpecSteps == Init /\ [][StepNext]_vars

(* ---- properties ------------------------------------------------------- *)

\* the sync window W of the specification, in milliseconds
W == 10 * 60 * 1000

Min(a, b) == IF a < b THEN a ELSE b

\* the last handler was send_message and its addToBuffer call returned
Inserted == last.event = "send_message" /\ lastSend.fault # "addToBuffer"

\* the ordinals of the buffered messages, oldest first
Ordinals(buffer) == [i \in 1..Len(buffer) |-> buffer[i].n]

\* C1: after each addToBuffer call the buffer holds at most MAX_BUFFER_SIZE
\* messages, whatever the payloads and the (non-decreasing) clock values.
C1_Capacity == Len(messageBuffer) <= MAX_BUFFER_SIZE

\* an insert into a full buffer has returned
C1_Witness ==
    /\ Inserted
    /\ nsent = MAX_BUFFER_SIZE + 1
    /\ Len(messageBuffer) = MAX_BUFFER_SIZE

\* C2: when addToBuffer returns, no buffered message is aged
\* MESSAGE_RETENTION_MS or more at the clock value of that moment.
C2_Retention ==
    Inserted =>
        \A i \in 1..Len(messageBuffer) :
            lastSend.returnedAt - messageBuffer[i].timestamp < MESSAGE_RETENTION_MS

\* an insert has evicted the older message by its age: the buffer holds the
\* new message only, with room left
C2_Witness ==
    /\ Inserted
    /\ nsent >= 2
    /\ Len(messageBuffer) = 1
    /\ messageBuffer[1].n = nsent
    /\ MAX_BUFFER_SIZE >= 2

\* C3: an insert that finds no expired message keeps the messages in
\* insertion order, appends the new one at the tail and, when the buffer was
\* full, removes the head and nothing else; so C+1 inserts into an empty
\* buffer leave messages 2..C+1.
C3_FifoEviction ==
    [][ ( /\ nsent' = nsent + 1
          /\ lastSend'.fault # "addToBuffer"
          /\ lastSend'.returnedAt - lastSend'.issuedAt < MESSAGE_RETENTION_MS
          /\ \A i \in 1..Len(messageBuffer) :
                lastSend'.returnedAt - messageBuffer[i].timestamp
                    < MESSAGE_RETENTION_MS )
        => LET old == Len(messageBuffer)
               k == Len(messageBuffer')
           IN  /\ k = Min(old + 1, MAX_BUFFER_SIZE)
               /\ messageBuffer'[k].n = nsent'
               /\ SubSeq(messageBuffer', 1, k - 1)
                    = SubSeq(messageBuffer, old - k + 2, old) ]_vars

\* C+1 messages inserted within the retention window: the buffer holds
\* messages 2..C+1
C3_Witness ==
    /\ Inserted
    /\ nsent = MAX_BUFFER_SIZE + 1
    /\ now < MESSAGE_RETENTION_MS
    /\ Ordinals(messageBuffer) = [i \in 1..MAX_BUFFER_SIZE |-> i + 1]

\* C4: the snapshot a new connection gets is exactly the buffered messages
\* with now - timestamp < W, in buffer order (no event when there is none).
C4_RecentWindow ==
    last.event = "connection" =>
        LET recent == SelectSeq(messageBuffer, LAMBDA m : now - m.timestamp < W)
        IN  sync_messages =
                IF Len(recent) = 0 THEN <<>>
                ELSE <<[to |-> {last.socket}, messages |-> recent]>>

\* inserts at t = 0, 1000 and 601000, a connection at t = 602000: it gets
\* the message of t = 601000 and no other, though the buffer holds more
C4_Witness ==
    /\ last.event = "connection"
    /\ now = 602000
    /\ Len(messageBuffer) >= 2
    /\ messageBuffer[Len(messageBuffer) - 1].timestamp = 1000
    /\ Len(sync_messages) = 1
    /\ Len(sync_messages[1].messages) = 1
    /\ sync_messages[1].messages[1].timestamp = 601000

\* the last handler was send_message, with a callable ack callback
SentWithAck == last.event = "send_message" /\ isFunction(lastSend.callback)

\* C5: a send with a callable ack callback invokes it exactly once: with
\* success:true and a timestamp >= the time of the send when the insertion
\* and the fan-out succeeded, with success:false when the insertion failed.
C5_AckOnce ==
    SentWithAck =>
        /\ Len(acks) = 1
        /\ acks[1].to = last.socket
        /\ lastSend.fault = "none" =>
              /\ acks[1].success
              /\ Len(acks[1].timestamp) = 1
              /\ acks[1].timestamp[1] >= lastSend.issuedAt
        /\ lastSend.fault = "addToBuffer" => ~acks[1].success

\* C6: the success ack carries data.id and the timestamp addToBuffer stored
\* with the message in the buffer.
C6_AckTimestamp ==
    (SentWithAck /\ Len(acks) = 1 /\ acks[1].success) =>
        /\ acks[1].messageId = lastSend.data.id
        /\ Len(messageBuffer) >= 1
        /\ messageBuffer[Len(messageBuffer)].n = nsent
        /\ acks[1].timestamp = <<messageBuffer[Len(messageBuffer)].timestamp>>

C8_SyncOnConnect ==
    last.event = "connection" =>
        LET recent == SelectSeq(messageBuffer, LAMBDA m : now - m.timestamp < W)
        IN  /\ Len(sync_messages) <= 1
            /\ Len(sync_messages) = 1 <=> Len(recent) > 0
            /\ \A i \in 1..Len(sync_messages) :
                  /\ sync_messages[i].to = {last.socket}
                  /\ sync_messages[i].messages = recent
            /\ receive_message = <<>>

\* a second socket has connected and got a snapshot
C8_Witness ==
    /\ last.event = "connection"
    /\ Cardinality(sockets) = 2
    /\ Len(sync_messages) = 1

\* a socket has connected to a buffer that holds no recent message
C8_WitnessEmpty ==
    /\ last.event = "connection"
    /\ Len(messageBuffer) > 0
    /\ sync_messages = <<>>

\* C9: a send whose fan-out fails for one connection acks the sender with
\* success:true and reaches every other connection.
C9_Isolation ==
    ( /\ SentWithAck
      /\ lastSend.fault = "none"
      /\ Cardinality(lastSend.failed) = 1 )
    => /\ Len(acks) = 1
       /\ acks[1].success
       /\ Len(receive_message) = 1
       /\ receive_message[1].to \ receive_message[1].failed
            = sockets \ lastSend.failed
       /\ receive_message[1].data = lastSend.data

\* C10: when the insertion or the fan-out throws, the ack callback (if
\* callable) is invoked once with the failure result, the exception stays in
\* the handler, and the registry, the rooms and (when the insertion threw)
\* the buffer are as they were, so that later events find the relay as it was.
C10_FailureIsolation ==
    [][ ( /\ nsent' = nsent + 1
          /\ lastSend'.fault # "none" )
        => /\ ~uncaught'
           /\ acks' = IF isFunction(lastSend'.callback)
                          THEN <<[to |-> last'.socket, success |-> FALSE,
                                  messageId |-> Undefined, timestamp |-> <<>>,
                                  error |-> "Failed to process message"]>>
                          ELSE <<>>
           /\ sockets' = sockets
           /\ clientsCount' = clientsCount
           /\ rooms' = rooms
           /\ lastSend'.fault = "addToBuffer" => messageBuffer' = messageBuffer
       ]_vars

\* a fan-out has thrown and the sender got the failure ack
C10_Witness ==
    /\ SentWithAck
    /\ lastSend.fault = "emit"
    /\ Len(acks) = 1
    /\ ~acks[1].success
    /\ ~uncaught

\* C11: every send that is processed emits receive_message to every
\* connected socket, the sender included, whatever rooms they joined.
C11_GlobalFanOut ==
    (last.event = "send_message" /\ ~lastSend.thrown) =>
        /\ Len(receive_message) = 1
        /\ receive_message[1].to = sockets
        /\ last.socket \in receive_message[1].to

\* the sender has joined a room, the other socket none, and both are
\* addressed
C11_Witness ==
    /\ last.event = "send_message"
    /\ ~lastSend.thrown
    /\ Cardinality(sockets) = 2
    /\ rooms[last.socket] # {}
    /\ \E x \in sockets : rooms[x] = {}
    /\ Len(receive_message) = 1
    /\ receive_message[1].to = sockets

\* C12: receive_message carries the inbound record as it came: the insert
\* into the buffer adds no timestamp to it; the buffered copy alone has the
\* server's timestamp.
C12_EchoUnmodified ==
    Inserted =>
        /\ Len(receive_message) = 1
        /\ receive_message[1].data = lastSend.data
        /\ \A i \in 1..Len(messageBuffer) :
              messageBuffer[i].n = nsent =>
                  messageBuffer[i].timestamp = lastSend.issuedAt

\* a record without a timestamp field was sent after the clock had advanced:
\* the event has none, the buffered copy has the server's
C12_Witness ==
    /\ Inserted
    /\ ~lastSend.data.isNull
    /\ lastSend.data.timestamp = <<>>
    /\ Len(receive_message) = 1
    /\ receive_message[1].data.timestamp = <<>>
    /\ Len(messageBuffer) >= 1
    /\ messageBuffer[Len(messageBuffer)].n = nsent
    /\ messageBuffer[Len(messageBuffer)].timestamp > 0

\* C13: a send acknowledged with success:false leaves no trace: its message
\* is not in the buffer and was not broadcast.
C13_FailedSendLeavesNoTrace ==
    (SentWithAck /\ Len(acks) >= 1 /\ ~acks[Len(acks)].success) =>
        /\ receive_message = <<>>
        /\ \A i \in 1..Len(messageBuffer) : messageBuffer[i].n # nsent

\* C14: no connection gets a message twice, once in its sync_messages
\* snapshot and once as receive_message, and its snapshot holds no message
\* it sent itself.
C14_NoDuplicateReplay ==
    \A s \in sockets :
        /\ seen[s].synced \cap seen[s].received = {}
        /\ seen[s].synced \cap seen[s].sent = {}

\* a connection has got one message in its snapshot and another, which it
\* sent itself, as receive_message
C14_Witness ==
    \E s \in sockets :
        /\ seen[s].synced # {}
        /\ seen[s].received \cap seen[s].sent # {}

\* C15: the buffer is ordered by timestamp, oldest first, and the timestamp
\* of a buffered message is the server's clock at its insertion, also when
\* the payload came with a timestamp field of its own.
C15_TimestampOrder ==
    /\ \A i, j \in 1..Len(messageBuffer) :
          i < j => messageBuffer[i].timestamp <= messageBuffer[j].timestamp
    /\ (Inserted /\ lastSend.data.timestamp # <<>>) =>
          \A i \in 1..Len(messageBuffer) :
              messageBuffer[i].n = nsent =>
                  messageBuffer[i].timestamp = lastSend.issuedAt

\* a payload with its own timestamp field was inserted behind an older
\* message, later than the client's timestamp says
C15_Witness ==
    /\ Inserted
    /\ lastSend.data.timestamp # <<>>
    /\ Len(messageBuffer) = 2
    /\ messageBuffer[2].n = nsent
    /\ messageBuffer[1].timestamp < messageBuffer[2].timestamp
    /\ messageBuffer[2].timestamp > lastSend.data.timestamp[1]

\* C16: under every interleaving of connections and sends, the buffer a
\* connection reads for its snapshot holds at most MAX_BUFFER_SIZE messages:
\* the state between the push and the shift is not seen.
C16_AtomicInsertion ==
    last.event = "connection" =>
        /\ Len(messageBuffer) <= MAX_BUFFER_SIZE
        /\ \A i \in 1..Len(sync_messages) :
              Len(sync_messages[i].messages) <= MAX_BUFFER_SIZE

\* a second socket has connected right after an insert into a full buffer
C16_Witness ==
    /\ last.event = "connection"
    /\ Cardinality(sockets) = 2
    /\ nsent = MAX_BUFFER_SIZE + 1
    /\ Len(messageBuffer) = MAX_BUFFER_SIZE
    /\ Len(sync_messages) = 1
    /\ Len(sync_messages[1].messages) = MAX_BUFFER_SIZE

\* the state between the push and the shift: one message too many
C16_Intermediate ==
    /\ running = "pushed"
    /\ Len(messageBuffer) = MAX_BUFFER_SIZE + 1

\* C17: the buffer changes only in an insert: a connection (with its
\* snapshot), a join_room, a disconnect and the passing of time leave it as
\* it is, and what an insert keeps, it keeps unchanged and in order.
C17_BufferFrame ==
    [][ /\ last'.event \in {"connection", "join_room", "disconnect", "tick"}
            => messageBuffer' = messageBuffer
        /\ \A i \in 1..Len(messageBuffer') :
              \/ \E j \in 1..Len(messageBuffer) : messageBuffer[j] = messageBuffer'[i]
              \/ nsent' = nsent + 1 /\ messageBuffer'[i].n = nsent'
        /\ \A i, j \in 1..Len(messageBuffer') :
              i < j => messageBuffer'[i].n < messageBuffer'[j].n ]_vars

\* a connection whose snapshot left out a buffered message: the full buffer
\* is still there
C17_Witness ==
    /\ last.event = "connection"
    /\ Len(messageBuffer) = MAX_BUFFER_SIZE
    /\ Len(sync_messages) = 1
    /\ Len(sync_messages[1].messages) < Len(messageBuffer)

\* C18: join_room adds the room to the socket's memberships and does nothing
\* else: it emits nothing and changes neither the buffer nor the count; and
\* user_count is emitted by the connection and disconnect handlers only.
C18_JoinRoomSilent ==
    [][ /\ last'.event = "join_room" =>
              /\ user_count' = <<>>
              /\ receive_message' = <<>>
              /\ sync_messages' = <<>>
              /\ acks' = <<>>
              /\ messageBuffer' = messageBuffer
              /\ clientsCount' = clientsCount
              /\ sockets' = sockets
              /\ \A s \in SocketIds : s # last'.socket => rooms'[s] = rooms[s]
              /\ rooms[last'.socket] \subseteq rooms'[last'.socket]
              /\ rooms'[last'.socket] \ rooms[last'.socket] \subseteq Rooms
        /\ user_count' # <<>> => last'.event \in {"connection", "disconnect"} ]_vars

\* a socket has joined a room while another socket is connected and the
\* buffer holds a recent message: nothing was emitted
C18_Witness ==
    /\ last.event = "join_room"
    /\ rooms[last.socket] # {}
    /\ Cardinality(sockets) = 2
    /\ Len(messageBuffer) >= 1
    /\ getRecentMessages(messageBuffer, now) # <<>>
    /\ user_count = <<>>

\* C19: a send_message whose second argument is absent or is not a function
\* invokes no ack and leaves no exception uncaught; and when nothing else
\* fails, its message is the tail of the buffer (unless the retention period
\* went by between its timestamp and its cleaning) and is broadcast, as
\* received, to every connection, and the catch block is not entered.
C19_MalformedAckSkipped ==
    (last.event = "send_message" /\ lastSend.callback \in {"absent", "notfunction"}) =>
        /\ acks = <<>>
        /\ ~uncaught
        /\ lastSend.fault = "none" =>
              /\ ~lastSend.thrown
              /\ \/ /\ Len(messageBuffer) >= 1
                    /\ messageBuffer[Len(messageBuffer)].n = nsent
                 \/ lastSend.returnedAt - lastSend.issuedAt >= MESSAGE_RETENTION_MS
              /\ Len(receive_message) = 1
              /\ receive_message[1].to = sockets
              /\ receive_message[1].data = lastSend.data

\* a send with a second argument that is not a function, from a socket with
\* another one connected: buffered and broadcast, no ack
C19_Witness ==
    /\ last.event = "send_message"
    /\ lastSend.callback = "notfunction"
    /\ lastSend.fault = "none"
    /\ Cardinality(sockets) = 2
    /\ messageBuffer[Len(messageBuffer)].n = nsent
    /\ Len(receive_message) = 1
    /\ acks = <<>>

\* the same with a null payload and no second argument at all
C19_WitnessNull ==
    /\ last.event = "send_message"
    /\ lastSend.callback = "absent"
    /\ lastSend.data = NullData
    /\ lastSend.fault = "none"
    /\ Len(receive_message) = 1
    /\ acks = <<>>

\* C20 as stated: after every addToBuffer call the copy of the message, with
\* the timestamp addToBuffer gave it, is the last entry of the buffer.
C20_NeverEvictedByOwnInsertion ==
    Inserted =>
        /\ Len(messageBuffer) >= 1
        /\ messageBuffer[Len(messageBuffer)].n = nsent
        /\ messageBuffer[Len(messageBuffer)].timestamp = lastSend.issuedAt

\* C20, amended: the copy is the last entry of the buffer after the call
\* when the clock read by cleanOldMessages is less than MESSAGE_RETENTION_MS
\* past the clock read for the timestamp; when it is not, the call has
\* removed its own message.
C20_TailWithinRetention ==
    Inserted =>
        IF lastSend.returnedAt - lastSend.issuedAt < MESSAGE_RETENTION_MS
            THEN /\ Len(messageBuffer) >= 1
                 /\ messageBuffer[Len(messageBuffer)].n = nsent
                 /\ messageBuffer[Len(messageBuffer)].timestamp = lastSend.issuedAt
            ELSE \A i \in 1..Len(messageBuffer) : messageBuffer[i].n # nsent

\* an insert into a full buffer, the clock advancing inside the call: the
\* new message is the tail
C20_Witness ==
    /\ Inserted
    /\ nsent = MAX_BUFFER_SIZE + 1
    /\ lastSend.returnedAt > lastSend.issuedAt
    /\ Len(messageBuffer) = MAX_BUFFER_SIZE
    /\ messageBuffer[Len(messageBuffer)].n = nsent

\* an insert after which every older entry has expired: the new message is
\* the only entry
C20_WitnessExpired ==
    /\ Inserted
    /\ nsent >= 2
    /\ Len(messageBuffer) = 1
    /\ messageBuffer[1].n = nsent
    /\ now - messageBuffer[1].timestamp < MESSAGE_RETENTION_MS

\* an insert that removed its own message: the buffer is empty after it
C20_WitnessSelfEvicted ==
    /\ Inserted
    /\ lastSend.returnedAt - lastSend.issuedAt >= MESSAGE_RETENTION_MS
    /\ messageBuffer = <<>>

====
